---- MODULE Spec2Model ----
(***************************************************************************)
(* FastAPI-Keycloak: the authorization-code callback, the token codec,     *)
(* the cookie session extraction and the /admin gate, as a state machine.  *)
(*                                                                         *)
(* The specifications share the variables:                                 *)
(*   Spec      the callback requests (MaxReq of them, interleaved at their *)
(*             awaits, each in its own database session) and the clock;    *)
(*   SpecOne   one callback with every input, on any consistent table;     *)
(*   SpecAuth  one callback, /protected requests and the clock;            *)
(*   SpecGate  requests through admin_permission_middleware, role changes  *)
(*             at the provider and the clock;                              *)
(*   SpecLogout one browser that logs in, asks /protected and /, and logs  *)
(*             out;                                                        *)
(*   SpecAll   every operation of the application, the views of the admin  *)
(*             panel included, on any consistent user table;               *)
(*   SpecHistory /protected with any cookie after any history of logins    *)
(*             and logouts, on any consistent user table;                  *)
(*   SpecMany  callbacks that interleave on any consistent user table, and *)
(*   SpecLive  the same where every call returns or raises in the end;     *)
(*   SpecClient direct calls of the KeycloakClient methods and of          *)
(*             get_server_user on every answer of the provider.            *)
(***************************************************************************)
EXTENDS Integers, Sequences, FiniteSets, TLC

(* ------------------------------ bounds -------------------------------- *)

\* number of callback requests of one run
MaxReq == 2
\* the clock runs from 0 to MaxTime; token expiries are drawn from 0..MaxTime
MaxTime == 1

Reqs == 1 .. MaxReq
Times == 0 .. MaxTime

(* --------------------------- value universe --------------------------- *)

\* subjects the provider knows
Subjects == {"u1", "u2"}
\* a payload without a "sub" claim (user_info.get('sub') is None)
NoSub == ""
Emails == {"e1", "e2"}
\* who signed a token: the realm key of the provider, or some other key
Signers == {"kc", "rogue"}
Audiences == {"app", "account"}

\* config_keycloak.PUBLIC_KEY, the key get_public_key() wraps in PEM
PUBLIC_KEY == "kc"

\* a JWT: the claims and the key that signed it
Tokens ==
    [sub : Subjects \cup {NoSub}, email : Emails, signer : Signers,
     exp : Times, aud : Audiences]

\* a payload without the "email" claim, a field AddUser requires
NoEmail == ""

\* the access_token cookies a browser may present: any token, and tokens of
\* the provider whose payload lacks a required field
SessionTokens ==
    Tokens \cup [sub : Subjects, email : {NoEmail}, signer : {PUBLIC_KEY},
                 exp : Times, aud : {"account"}]

\* Python None where a token is expected (also the falsy empty string)
NoToken == [sub |-> "-", email |-> "-", signer |-> "-", exp |-> 0, aud |-> "-"]

\* the claims jwt.decode returns; NoPayload when it raised
NoPayload == [sub |-> "-", email |-> "-", exp |-> 0, aud |-> "-"]

\* query parameters: absent (None), present and empty, present with a value
NoParam == "<none>"
CodeValues == {NoParam, "", "c"}
ErrorValues == {NoParam, "", "access_denied"}

\* a truthy Python value (if x:)
Truthy(s) == s /= NoParam /\ s /= ""

\* rows of the table of models.User: the primary key and the unique email
NoRow == [id |-> "-", email |-> "-"]

(* ----------------------------- Token Codec ---------------------------- *)

\* jose: the signature is verified first (verify_signature)
SignatureValid(token) == token.signer = PUBLIC_KEY

\* jose, verify_exp: ExpiredSignatureError when exp < now
Expired(token, t) == token.exp < t

Claims(token) ==
    [sub |-> token.sub, email |-> token.email, exp |-> token.exp, aud |-> token.aud]

\* get_payload with the expiry left unverified
get_payload_noexp(token, t) ==
    IF token /= NoToken /\ SignatureValid(token)
    THEN [ok |-> TRUE, payload |-> Claims(token)]
    ELSE [ok |-> FALSE, payload |-> NoPayload]

\* get_payload: jwt.decode(token, key, RS256, verify_signature, verify_exp,
\* verify_aud off); ok = FALSE stands for the JWTError it raises
get_payload(token, t) ==
    IF token /= NoToken /\ SignatureValid(token) /\ ~Expired(token, t)
    THEN [ok |-> TRUE, payload |-> Claims(token)]
    ELSE [ok |-> FALSE, payload |-> NoPayload]

(* ----------------------- Identity Provider Client --------------------- *)

\* what the token endpoint answers: a network error, or a status and a JSON
\* body whose access_token may be missing
TokenResponses ==
    [kind : {"neterr"}, status : {0}, access_token : {NoToken}]
    \cup [kind : {"http"}, status : {400}, access_token : {NoToken}]
    \cup [kind : {"http"}, status : {200}, access_token : Tokens \cup {NoToken}]

\* the tokens the provider hands out in Spec: every subject, email and expiry
\* under the realm key, and one forged token
CallbackTokens ==
    {t \in Tokens : /\ t.aud = "account"
                    /\ \/ t.signer = PUBLIC_KEY
                       \/ t.sub = "u1" /\ t.email = "e1" /\ t.exp = MaxTime}

CallbackResponses ==
    {resp \in TokenResponses : resp.access_token \in CallbackTokens \cup {NoToken}}

NoResponse == [kind |-> "-", status |-> 0, access_token |-> NoToken]

\* KeycloakClient.get_tokens: TokenRequestError on a non-200 status and on
\* httpx.RequestError, the parsed body otherwise
get_tokens(resp) ==
    IF resp.kind = "neterr" THEN [err |-> "TokenRequestError", access_token |-> NoToken]
    ELSE IF resp.status /= 200 THEN [err |-> "TokenRequestError", access_token |-> NoToken]
    ELSE [err |-> "", access_token |-> resp.access_token]

(* ------------------------------ variables ----------------------------- *)

VARIABLES
    cb,        \* cb[r]: the callback request r (its position, inputs, session, response)
    store,     \* committed rows of the user table
    now,       \* the clock jose compares exp with
    prot,      \* the last GET /protected: its cookie and what get_cookie_user gave
    roles,     \* provider side: roles[s] is the role-mappings document of subject s
    gate,      \* the last request through admin_permission_middleware
    call,      \* the last direct call of a KeycloakClient method or dependency
    browser    \* a browser: its access_token cookie and its last navigation

vars == <<cb, store, now, prot, roles, gate, call, browser>>

(* ------------------- errors (keycloak_api/exceptions.py) -------------- *)

\* status_code of the HTTPException objects of exceptions.py
status_code(exc) ==
    IF exc = "KeycloakRequestError" THEN 500
    ELSE IF exc \in {"NotAccessToken", "InvalidToken", "TokenRequestError",
                     "NotCodeError", "NotFoundUserIdError", "AuthError"} THEN 401
    ELSE 0

\* config_keycloak.keycloak_url, the authorization endpoint of the provider
LOGIN_URL == "keycloak_url"

\* what the client receives: the status and the Location header
NoAnswer == [status |-> 0, location |-> ""]

\* the application without the handler: the HTTPException is answered with
\* its own status and a JSON body
auth_exception_handler_default(exc) ==
    [status |-> status_code(exc), location |-> ""]

\* auth_exception_handler: a RedirectResponse (307) to keycloak_url for status
\* 401; any other HTTPException is raised again and ends as a server error
auth_exception_handler(exc) ==
    IF status_code(exc) = 401 THEN [status |-> 307, location |-> LOGIN_URL]
    ELSE [status |-> 500, location |-> ""]

(* ------------------------- storage (user table) ----------------------- *)

\* UserService.find_by_id: the row with that primary key, None (NoRow) if absent
find_by_id(rows, id) ==
    IF \E x \in rows : x.id = id THEN CHOOSE x \in rows : x.id = id ELSE NoRow

\* a table without its primary key: only unique=True of the email is checked
Conflicts_emailonly(rows, row) ==
    \E x \in rows : x.email = row.email

\* a table whose email column is not unique: only the primary key is checked
Conflicts_idonly(rows, row) ==
    \E x \in rows : x.id = row.id

\* the constraints an INSERT is checked against when it is flushed:
\* the primary key, and unique=True of models.User.email
Conflicts(rows, row) ==
    \E x \in rows : x.id = row.id \/ x.email = row.email

(* ---------------- get_session (database/session.py) ------------------- *)

\* get_session that commits in its except branch too
get_session_exit_always(committed, pending, raised, commit) ==
    IF commit THEN committed \cup pending ELSE committed

\* what get_session leaves in the table when the handler is over:
\* commit after the yield if commit is set, rollback on any exception
get_session_exit(committed, pending, raised, commit) ==
    IF raised THEN committed
    ELSE IF commit THEN committed \cup pending
    ELSE committed

\* get_session without its except branch: no rollback after an exception
session_state_norollback(raised, commit) ==
    IF raised THEN "open" ELSE IF commit THEN "committed" ELSE "open"

\* the state of the session after get_session's try/except
session_state(raised, commit) ==
    IF raised THEN "rolledback" ELSE IF commit THEN "committed" ELSE "open"

(* -------------- login_callback (keycloak_api/router.py) --------------- *)

\* the error check made after the code check, so that a code hides the error
login_callback_params_codefirst(code, error) ==
    IF Truthy(code) THEN ""
    ELSE "NotCodeError"

\* the parameter checks without "if not code"
login_callback_params_nocode(code, error) ==
    IF Truthy(error) THEN "NotCodeError" ELSE ""

\* lines 61-67: "if error: raise NotCodeError", "if not code: raise NotCodeError";
\* "" when the handler goes on to the try block
login_callback_params(code, error) ==
    IF Truthy(error) THEN "NotCodeError"
    ELSE IF ~Truthy(code) THEN "NotCodeError"
    ELSE ""

\* an except clause that re-raises what it caught
login_callback_except_reraise(exc) == exc

\* lines 101-103: "except Exception as e: ... raise AuthError" around the whole
\* try block; HTTPException is an Exception, so the handler's own
\* NotAccessToken and NotFoundUserIdError are caught as well
login_callback_except(exc) == "AuthError"

\* the token steps without "if not user_id"
login_callback_token_nosub(token_data, t) ==
    IF token_data.access_token = NoToken
    THEN [exc |-> "NotAccessToken", user_info |-> NoPayload]
    ELSE IF ~get_payload(token_data.access_token, t).ok
    THEN [exc |-> "JWTError", user_info |-> NoPayload]
    ELSE [exc |-> "", user_info |-> get_payload(token_data.access_token, t).payload]

\* lines 70-81: access_token = token_data.get('access_token'), NotAccessToken
\* if falsy; user_info = get_payload(access_token), which may raise;
\* NotFoundUserIdError if user_info.get('sub') is falsy
login_callback_token(token_data, t) ==
    IF token_data.access_token = NoToken
    THEN [exc |-> "NotAccessToken", user_info |-> NoPayload]
    ELSE IF ~get_payload(token_data.access_token, t).ok
    THEN [exc |-> "JWTError", user_info |-> NoPayload]
    ELSE IF get_payload(token_data.access_token, t).payload.sub = NoSub
    THEN [exc |-> "NotFoundUserIdError", user_info |-> NoPayload]
    ELSE [exc |-> "", user_info |-> get_payload(token_data.access_token, t).payload]

\* the existence test inverted
needs_insert_inverted(user) == user /= NoRow

\* line 84: "if not user and isinstance(user_info, dict)"
needs_insert(user) == user = NoRow

\* lines 85-87: sub renamed to id, AddUser(**user_info)
AddUser(user_info) == [id |-> user_info.sub, email |-> user_info.email]

\* lines 89-99: RedirectResponse("/protected") with the access_token cookie
callback_response(access_token) ==
    [out |-> "redirect", location |-> "/protected", cookie |-> access_token]

\* the response of a request that ended in an HTTPException: no cookie
error_response(exc) ==
    [out |-> exc, location |-> "", cookie |-> NoToken]

(* --------------------- one callback request, step by step ------------- *)

\* the request r is over
Done(r) == cb[r].pc = "done"

\* a callback request that has not arrived yet
IdleReq ==
    [pc |-> "idle", code |-> NoParam, error |-> NoParam,
     resp |-> NoResponse, tok |-> NoToken, at |-> 0, user_info |-> NoPayload,
     pending |-> {}, tx |-> "none", closed |-> FALSE,
     raised |-> "", out |-> "", location |-> "", cookie |-> NoToken,
     answer |-> NoAnswer,
     calls |-> 0, reads |-> 0, writes |-> 0, userInTx |-> FALSE, nth |-> 0]

\* the session of r is open: its uncommitted rows are held in the table
InFlight(r) == cb[r].tx = "open"

\* the handler of r raised exc: get_session rolls back and closes, the
\* response carries the error and no cookie
Raise(r, req, exc, surfaced) ==
    /\ cb' = [cb EXCEPT ![r] =
                [req EXCEPT !.pc = "done", !.raised = exc,
                            !.out = error_response(surfaced).out,
                            !.location = error_response(surfaced).location,
                            !.cookie = error_response(surfaced).cookie,
                            !.answer = auth_exception_handler(surfaced),
                            !.tx = session_state(TRUE, TRUE), !.closed = TRUE,
                            !.pending = {}]]
    /\ store' = get_session_exit(store, req.pending, TRUE, TRUE)

\* the request arrives: SessionDepends(commit=True) opens the session, then
\* the handler checks its parameters (lines 61-67)
Start(r, code, error) ==
    /\ cb[r].pc = "idle"
    /\ \A q \in 1 .. (r - 1) : cb[q].pc /= "idle"
    /\ LET req == [cb[r] EXCEPT !.code = code, !.error = error, !.tx = "open"]
           exc == login_callback_params(code, error)
       IN IF exc /= ""
          THEN Raise(r, req, exc, exc)
          ELSE /\ cb' = [cb EXCEPT ![r] = [req EXCEPT !.pc = "exchange"]]
               /\ store' = store
    /\ UNCHANGED <<now, prot, roles, gate, call, browser>>

\* keycloak.get_tokens(code) returns or raises; lines 70-81 run on its result
Exchange(r, resp) ==
    /\ cb[r].pc = "exchange"
    /\ LET req == [cb[r] EXCEPT !.resp = resp, !.calls = @ + 1, !.at = now]
           token_data == get_tokens(resp)
           step == login_callback_token(token_data, now)
       IN IF token_data.err /= ""
          THEN Raise(r, req, token_data.err, login_callback_except(token_data.err))
          ELSE IF step.exc /= ""
          THEN Raise(r, [req EXCEPT !.tok = token_data.access_token],
                     step.exc, login_callback_except(step.exc))
          ELSE /\ cb' = [cb EXCEPT ![r] =
                            [req EXCEPT !.pc = "find",
                                        !.tok = token_data.access_token,
                                        !.user_info = step.user_info]]
               /\ store' = store
    /\ UNCHANGED <<now, prot, roles, gate, call, browser>>

\* the handler returns its response; get_session will commit next
Respond(req) ==
    [req EXCEPT !.pc = "commit",
                !.out = callback_response(req.tok).out,
                !.location = callback_response(req.tok).location,
                !.cookie = callback_response(req.tok).cookie,
                !.answer = [status |-> 307,
                            location |-> callback_response(req.tok).location],
                !.userInTx = \E x \in store \cup req.pending : x.id = req.user_info.sub]

\* UserService.find_by_id(session, user_id) returns (line 83)
Find(r) ==
    /\ cb[r].pc = "find"
    /\ LET req == [cb[r] EXCEPT !.reads = @ + 1]
           user == find_by_id(store \cup cb[r].pending, cb[r].user_info.sub)
       IN cb' = [cb EXCEPT ![r] =
                   IF needs_insert(user) THEN [req EXCEPT !.pc = "add"]
                   ELSE Respond(req)]
    /\ UNCHANGED <<store, now, prot, roles, gate, call, browser>>

\* a row another open session has inserted and not yet committed: the
\* INSERT of r waits for that session to end
Blocked(r, row) ==
    \E q \in Reqs \ {r} : InFlight(q) /\ Conflicts(cb[q].pending, row)

\* UserService.add(session, AddUser(**user_info)) returns or raises (line 87)
Add(r) ==
    /\ cb[r].pc = "add"
    /\ LET row == AddUser(cb[r].user_info)
           req == [cb[r] EXCEPT !.writes = @ + 1, !.pending = {row}]
       IN /\ ~Blocked(r, row)
          /\ IF Conflicts(store, row)
             THEN Raise(r, req, "IntegrityError", login_callback_except("IntegrityError"))
             ELSE /\ cb' = [cb EXCEPT ![r] = Respond(req)]
                  /\ store' = store
    /\ UNCHANGED <<now, prot, roles, gate, call, browser>>

\* successful callbacks for subject s that are over
Succeeded(s) ==
    {q \in Reqs : cb[q].pc = "done" /\ cb[q].out = "redirect" /\ cb[q].user_info.sub = s}

\* after the yield: session.commit(), then session.close()
Commit(r) ==
    /\ cb[r].pc = "commit"
    /\ store' = get_session_exit(store, cb[r].pending, FALSE, TRUE)
    /\ cb' = [cb EXCEPT ![r] =
                [cb[r] EXCEPT !.pc = "done", !.pending = {},
                              !.tx = session_state(FALSE, TRUE), !.closed = TRUE,
                              !.nth = Cardinality(Succeeded(cb[r].user_info.sub)) + 1]]
    /\ UNCHANGED <<now, prot, roles, gate, call, browser>>

\* time passes
Tick ==
    /\ now < MaxTime
    /\ now' = now + 1
    /\ UNCHANGED <<cb, store, prot, roles, gate, call, browser>>

(* ------------- session extraction (keycloak_api/dependencies.py) ------ *)

\* get_cookie_user refusing the token the browser held when it logged out
get_cookie_user_revoking(token, t) ==
    IF token = NoToken
    THEN [exc |-> "NotAccessToken", user |-> NoRow]
    ELSE IF ~get_payload(token, t).ok
            \/ (browser.last = "logout" /\ token = browser.sent)
    THEN [exc |-> "InvalidToken", user |-> NoRow]
    ELSE IF get_payload(token, t).payload.sub = NoSub
    THEN [exc |-> "InvalidToken", user |-> NoRow]
    ELSE IF get_payload(token, t).payload.email = NoEmail
    THEN [exc |-> "InvalidToken", user |-> NoRow]
    ELSE [exc |-> "", user |-> AddUser(get_payload(token, t).payload)]

\* get_cookie_user without its "if not token" test: None goes to the decoder
get_cookie_user_notest(token, t) ==
    IF token = NoToken \/ ~get_payload(token, t).ok
    THEN [exc |-> "InvalidToken", user |-> NoRow]
    ELSE IF get_payload(token, t).payload.sub = NoSub
    THEN [exc |-> "InvalidToken", user |-> NoRow]
    ELSE IF get_payload(token, t).payload.email = NoEmail
    THEN [exc |-> "InvalidToken", user |-> NoRow]
    ELSE [exc |-> "", user |-> AddUser(get_payload(token, t).payload)]

\* get_cookie_user: NotAccessToken without a cookie; get_payload, then
\* user_info["id"] = user_info.pop("sub") and AddUser(**user_info); whatever
\* is raised inside the try becomes InvalidToken
get_cookie_user(token, t) ==
    IF token = NoToken
    THEN [exc |-> "NotAccessToken", user |-> NoRow]
    ELSE IF ~get_payload(token, t).ok
    THEN [exc |-> "InvalidToken", user |-> NoRow]
    ELSE IF get_payload(token, t).payload.sub = NoSub
    THEN [exc |-> "InvalidToken", user |-> NoRow]
    ELSE IF get_payload(token, t).payload.email = NoEmail
    THEN [exc |-> "InvalidToken", user |-> NoRow]
    ELSE [exc |-> "", user |-> AddUser(get_payload(token, t).payload)]

NoProt ==
    [cookie |-> NoToken, at |-> 0, exc |-> "", user |-> NoRow, served |-> FALSE,
     answer |-> NoAnswer]

\* protected_page: the user get_cookie_user gives, or its failure as the
\* exception handler answers it
protected_page(cookie, t) ==
    [cookie |-> cookie, at |-> t,
     exc |-> get_cookie_user(cookie, t).exc,
     user |-> get_cookie_user(cookie, t).user,
     served |-> TRUE,
     answer |-> IF get_cookie_user(cookie, t).exc = ""
                THEN [status |-> 200, location |-> ""]
                ELSE auth_exception_handler(get_cookie_user(cookie, t).exc)]

\* GET /protected with the cookie the request presents
ProtectedRequest(cookie) ==
    /\ prot' = protected_page(cookie, now)
    /\ UNCHANGED <<cb, store, now, roles, gate, call, browser>>

(* ------------- logout and index, as a browser meets them -------------- *)

\* the id_token cookie of a request: absent, present and empty, with a value
IdTokenValues == {NoParam, "", "idt"}

\* config_keycloak.logout_url, CLIENT_ID and BASE_URL
LOGOUT_URL == "logout_url"
CLIENT_ID == "client"
BASE_URL == "base"

\* the query of the logout redirect: a function from parameter names
NoParams == [n \in {} |-> ""]

\* logout that leaves the cookie alone
logout_keepcookie(id_token) ==
    [status |-> 307, location |-> LOGOUT_URL,
     params |-> IF Truthy(id_token)
                THEN [n \in {"client_id", "post_logout_redirect_uri", "id_token_hint"} |->
                        IF n = "client_id" THEN CLIENT_ID
                        ELSE IF n = "post_logout_redirect_uri" THEN BASE_URL
                        ELSE id_token]
                ELSE [n \in {"client_id", "post_logout_redirect_uri"} |->
                        IF n = "client_id" THEN CLIENT_ID ELSE BASE_URL],
     deleted |-> {}]

\* logout: the parameters client_id and post_logout_redirect_uri, id_token_hint
\* "if id_token:", a RedirectResponse to logout_url with them, and
\* delete_cookie("access_token")
logout(id_token) ==
    [status |-> 307, location |-> LOGOUT_URL,
     params |-> IF Truthy(id_token)
                THEN [n \in {"client_id", "post_logout_redirect_uri", "id_token_hint"} |->
                        IF n = "client_id" THEN CLIENT_ID
                        ELSE IF n = "post_logout_redirect_uri" THEN BASE_URL
                        ELSE id_token]
                ELSE [n \in {"client_id", "post_logout_redirect_uri"} |->
                        IF n = "client_id" THEN CLIENT_ID ELSE BASE_URL],
     deleted |-> {"access_token"}]

\* index: a RedirectResponse to keycloak_url
index == [status |-> 307, location |-> LOGIN_URL, params |-> NoParams, deleted |-> {}]

\* a browser that holds no cookie and has not navigated yet
NoBrowser ==
    [access_token |-> NoToken, last |-> "", sent |-> NoToken, id_token |-> NoParam,
     response |-> [status |-> 0, location |-> "", params |-> NoParams, deleted |-> {}]]

\* the browser receives the response of its callback request r and stores
\* the cookie of the Set-Cookie header
StoreCookie(r) ==
    /\ Done(r) /\ cb[r].out = "redirect"
    /\ browser.last /= "callback"
    /\ browser' = [NoBrowser EXCEPT !.access_token = cb[r].cookie, !.last = "callback"]
    /\ UNCHANGED <<cb, store, now, prot, roles, gate, call>>

\* GET /keycloak/logout from the browser, whose cookies may hold an id_token;
\* the browser drops the cookies the response deletes
Logout(id_token) ==
    /\ browser' = [access_token |-> IF "access_token" \in logout(id_token).deleted
                                    THEN NoToken ELSE browser.access_token,
                   last |-> "logout", sent |-> browser.access_token,
                   id_token |-> id_token, response |-> logout(id_token)]
    /\ UNCHANGED <<cb, store, now, prot, roles, gate, call>>

\* GET /protected from the browser, with the cookie it holds
BrowserProtected ==
    /\ browser.last \in {"callback", "logout"}
    /\ prot' = protected_page(browser.access_token, now)
    /\ browser' = [browser EXCEPT !.last = IF @ = "logout" THEN "protected after logout"
                                           ELSE "protected"]
    /\ UNCHANGED <<cb, store, now, roles, gate, call>>

\* GET /protected by a client that presents the token its browser held when
\* it logged out
KeptTokenProtected ==
    /\ browser.last = "logout" /\ browser.sent /= NoToken
    /\ prot' = protected_page(browser.sent, now)
    /\ browser' = [browser EXCEPT !.last = "kept token after logout"]
    /\ UNCHANGED <<cb, store, now, roles, gate, call>>

\* GET / from the browser
Index ==
    /\ browser.last /= "index"
    /\ browser' = [browser EXCEPT !.last = "index", !.sent = browser.access_token,
                                  !.id_token = NoParam, !.response = index]
    /\ UNCHANGED <<cb, store, now, prot, roles, gate, call>>

(* --------------------- admin gate (main.py, client.py) ---------------- *)

\* a path is a sequence of characters
ADMIN_PREFIX == <<"/", "a", "d", "m", "i", "n">>
Paths ==
    { ADMIN_PREFIX \o <<"/", "u">>,     \* /admin/u, a view of the panel
      ADMIN_PREFIX \o <<"x">>,          \* /adminx
      <<"/", "p">> }                    \* /p, outside the panel

\* str.startswith
StartsWith(path, prefix) ==
    /\ Len(path) >= Len(prefix)
    /\ SubSeq(path, 1, Len(prefix)) = prefix

\* role-mappings documents: clientMappings maps some clients to the names of
\* their mapped roles; the empty document has no clientMappings
Clients == {"realm-management", "account"}
RoleNames == {"realm-admin", "view-users"}
NoDoc == [c \in {} |-> {}]
RoleDocs ==
    { NoDoc,
      [c \in {"account"} |-> {}],
      [c \in {"account"} |-> {"view-users"}],
      [c \in {"realm-management"} |-> {"realm-admin"}],
      [c \in Clients |-> IF c = "account" THEN {"view-users"}
                         ELSE {"realm-admin", "view-users"}] }

\* answers of the role-mappings endpoint for a subject: a network error, a
\* non-200 status, or 200 with the subject's current document
NoLookup == [kind |-> "-", status |-> 0, body |-> NoDoc]
RoleResponses(sub) ==
    {[kind |-> "neterr", status |-> 0, body |-> NoDoc],
     [kind |-> "http", status |-> 403, body |-> NoDoc]}
    \cup (IF sub \in Subjects
          THEN {[kind |-> "http", status |-> 200, body |-> roles[sub]]}
          ELSE {})

\* lines 119-122: the names of the roles of every client's mappings
client_roles(doc) == UNION {doc[c] : c \in DOMAIN doc}

\* check_user_admin_role that raises on a non-200 status, as get_user_info does
check_user_admin_role_strict(resp) ==
    IF resp.kind = "neterr" THEN [exc |-> "KeycloakRequestError", is_admin |-> FALSE]
    ELSE IF resp.status /= 200 THEN [exc |-> "InvalidToken", is_admin |-> FALSE]
    ELSE [exc |-> "", is_admin |-> \E role \in client_roles(resp.body) : role \in {"realm-admin"}]

\* check_user_admin_role asking that every role name be an admin role
check_user_admin_role_all(resp) ==
    IF resp.kind = "neterr" THEN [exc |-> "KeycloakRequestError", is_admin |-> FALSE]
    ELSE IF resp.status /= 200 THEN [exc |-> "", is_admin |-> FALSE]
    ELSE [exc |-> "", is_admin |-> \A role \in client_roles(resp.body) : role \in {"realm-admin"}]

\* KeycloakClient.check_user_admin_role: KeycloakRequestError on a network
\* error, False on a non-200 status, otherwise whether realm-admin is among
\* the client roles
check_user_admin_role(resp) ==
    IF resp.kind = "neterr" THEN [exc |-> "KeycloakRequestError", is_admin |-> FALSE]
    ELSE IF resp.status /= 200 THEN [exc |-> "", is_admin |-> FALSE]
    ELSE [exc |-> "", is_admin |-> \E role \in client_roles(resp.body) : role \in {"realm-admin"}]

\* is_realm_admin_user(token, keycloak_client): the subject id is taken from
\* the locally decoded token, then check_user_admin_role is called
is_realm_admin_user(token, t, resp) ==
    IF ~get_payload(token, t).ok
    THEN [exc |-> "InvalidToken", is_admin |-> FALSE, lookups |-> 0]
    ELSE [exc |-> check_user_admin_role(resp).exc,
          is_admin |-> check_user_admin_role(resp).is_admin,
          lookups |-> 1]

\* the middleware without its "if not is_admin" branch
admin_permission_middleware_open(path, check) ==
    IF ~StartsWith(path, ADMIN_PREFIX) THEN [status |-> 200, reached |-> TRUE, detail |-> ""]
    ELSE IF check.exc /= "" THEN [status |-> 401, reached |-> FALSE, detail |-> check.exc]
    ELSE [status |-> 200, reached |-> TRUE, detail |-> ""]

\* the middleware answering an exception like a refusal
admin_permission_middleware_quiet(path, check) ==
    IF ~StartsWith(path, ADMIN_PREFIX) THEN [status |-> 200, reached |-> TRUE, detail |-> ""]
    ELSE IF check.exc /= "" \/ ~check.is_admin
    THEN [status |-> 403, reached |-> FALSE, detail |-> "admin required"]
    ELSE [status |-> 200, reached |-> TRUE, detail |-> ""]

\* the middleware without the test of the path
admin_permission_middleware_nobypass(path, check) ==
    IF check.exc /= "" THEN [status |-> 401, reached |-> FALSE, detail |-> check.exc]
    ELSE IF ~check.is_admin THEN [status |-> 403, reached |-> FALSE, detail |-> "admin required"]
    ELSE [status |-> 200, reached |-> TRUE, detail |-> ""]

\* admin_permission_middleware: other paths go straight to call_next; under
\* /admin, 401 with the reason (str(e)) when the check raised, 403 when it
\* returned False, call_next otherwise
admin_permission_middleware(path, check) ==
    IF ~StartsWith(path, ADMIN_PREFIX) THEN [status |-> 200, reached |-> TRUE, detail |-> ""]
    ELSE IF check.exc /= "" THEN [status |-> 401, reached |-> FALSE, detail |-> check.exc]
    ELSE IF ~check.is_admin THEN [status |-> 403, reached |-> FALSE, detail |-> "admin required"]
    ELSE [status |-> 200, reached |-> TRUE, detail |-> ""]

NoGate ==
    [path |-> <<>>, cookie |-> NoToken, at |-> 0, reads |-> 0, lookups |-> 0,
     resp |-> NoLookup, exc |-> "", is_admin |-> FALSE,
     status |-> 0, reached |-> FALSE, detail |-> "", was |-> {}]

\* what the middleware does with a request for path with that cookie; resp
\* is what the provider answers if it is asked
gate_request(path, cookie, resp) ==
    LET gated == StartsWith(path, ADMIN_PREFIX)
        check == is_realm_admin_user(cookie, now, resp)
        asked == gated /\ check.lookups = 1
        res == admin_permission_middleware(path, check)
    IN [path |-> path, cookie |-> cookie, at |-> now,
        reads |-> IF gated THEN 1 ELSE 0,
        lookups |-> IF asked THEN 1 ELSE 0,
        resp |-> IF asked THEN resp ELSE NoLookup,
        exc |-> IF gated THEN check.exc ELSE "",
        is_admin |-> gated /\ check.is_admin,
        status |-> res.status, reached |-> res.reached,
        detail |-> res.detail,
        was |-> IF gated /\ res.reached
                THEN gate.was \cup {cookie.sub} ELSE gate.was]

\* a request for path with that cookie goes through the middleware
GateRequest(path, cookie, resp) ==
    /\ gate' = gate_request(path, cookie, resp)
    /\ UNCHANGED <<cb, store, now, prot, roles, call, browser>>

\* the view of the panel with deletion left on
UserAdmin_deletable == [can_create |-> FALSE, can_edit |-> FALSE, can_delete |-> TRUE]

\* admin/models.py, UserAdmin: what the view of the user table allows
UserAdmin == [can_create |-> FALSE, can_edit |-> FALSE, can_delete |-> FALSE]

\* the operations of a model view of the panel
AdminOps == {"list", "create", "edit", "delete"}

\* the table after the view has served op on row: the writing operations
\* are served only where the view allows them
admin_view(rows, op, row) ==
    IF op = "create" /\ UserAdmin.can_create /\ ~Conflicts(rows, row)
    THEN rows \cup {row}
    ELSE IF op = "edit" /\ UserAdmin.can_edit /\ (\E x \in rows : x.id = row.id)
    THEN {x \in rows : x.id /= row.id} \cup {row}
    ELSE IF op = "delete" /\ UserAdmin.can_delete
    THEN {x \in rows : x.id /= row.id}
    ELSE rows

\* a request for an operation of the user view of the panel: the middleware
\* first, then the view if the request reaches it
AdminRequest(op, row, cookie, resp) ==
    /\ gate' = gate_request(ADMIN_PREFIX \o <<"/", "u">>, cookie, resp)
    /\ store' = IF gate_request(ADMIN_PREFIX \o <<"/", "u">>, cookie, resp).reached
                THEN admin_view(store, op, row) ELSE store
    /\ UNCHANGED <<cb, now, prot, roles, call, browser>>

\* an administrator of the realm changes the role mappings of subject s
RoleChange(s, doc) ==
    /\ roles[s] /= doc
    /\ roles' = [roles EXCEPT ![s] = doc]
    /\ UNCHANGED <<cb, store, now, prot, gate, call, browser>>

(* ------------- direct calls of the client and the dependencies -------- *)

\* answers of the userinfo endpoint: a network error, or a status and a body
UserInfoResponses ==
    {[kind |-> "neterr", status |-> 0, body |-> NoRow]}
    \cup [kind : {"http"}, status : {200, 401}, body : [id : Subjects, email : Emails]]

NoUserInfo == [kind |-> "-", status |-> 0, body |-> NoRow]

\* answers of the token endpoint where an error status carries a body too
ClientTokenResponses ==
    TokenResponses
    \cup [kind : {"http"}, status : {400}, access_token : CallbackTokens]

\* every role-mappings document over the clients and role names
AllRoleDocs == UNION {[D -> SUBSET RoleNames] : D \in SUBSET Clients}

ClientRoleResponses ==
    {[kind |-> "neterr", status |-> 0, body |-> NoDoc]}
    \cup [kind : {"http"}, status : {200, 403}, body : AllRoleDocs]

\* get_user_info that lets a non-200 body through
get_user_info_nostatus(resp) ==
    IF resp.kind = "neterr" THEN [exc |-> "KeycloakRequestError", user |-> NoRow]
    ELSE [exc |-> "", user |-> resp.body]

\* KeycloakClient.get_user_info: InvalidToken on a non-200 status,
\* KeycloakRequestError on httpx.RequestError, the parsed body otherwise
get_user_info(resp) ==
    IF resp.kind = "neterr" THEN [exc |-> "KeycloakRequestError", user |-> NoRow]
    ELSE IF resp.status /= 200 THEN [exc |-> "InvalidToken", user |-> NoRow]
    ELSE [exc |-> "", user |-> resp.body]

\* get_server_user that lets the client's error through
get_server_user_reraise(token, resp) ==
    IF token = NoToken THEN [exc |-> "NotAccessToken", user |-> NoRow, calls |-> 0]
    ELSE [exc |-> get_user_info(resp).exc, user |-> get_user_info(resp).user, calls |-> 1]

\* get_server_user: NotAccessToken without a cookie; otherwise get_user_info,
\* and whatever it raises becomes InvalidToken
get_server_user(token, resp) ==
    IF token = NoToken THEN [exc |-> "NotAccessToken", user |-> NoRow, calls |-> 0]
    ELSE IF get_user_info(resp).exc /= ""
    THEN [exc |-> "InvalidToken", user |-> NoRow, calls |-> 1]
    ELSE [exc |-> "", user |-> get_user_info(resp).user, calls |-> 1]

NoCall ==
    [op |-> "", cookie |-> NoToken, tresp |-> NoResponse, uresp |-> NoUserInfo,
     rresp |-> NoLookup, exc |-> "", access_token |-> NoToken, user |-> NoRow,
     is_admin |-> FALSE, calls |-> 0]

\* keycloak.get_tokens(code) is called and the token endpoint answers resp
CallGetTokens(resp) ==
    /\ call' = [NoCall EXCEPT !.op = "get_tokens", !.tresp = resp, !.calls = 1,
                              !.exc = get_tokens(resp).err,
                              !.access_token = get_tokens(resp).access_token]
    /\ UNCHANGED <<cb, store, now, prot, roles, gate, browser>>

\* keycloak.get_user_info(token) is called and the userinfo endpoint answers resp
CallGetUserInfo(cookie, resp) ==
    /\ call' = [NoCall EXCEPT !.op = "get_user_info", !.cookie = cookie,
                              !.uresp = resp, !.calls = 1,
                              !.exc = get_user_info(resp).exc,
                              !.user = get_user_info(resp).user]
    /\ UNCHANGED <<cb, store, now, prot, roles, gate, browser>>

\* the dependency get_server_user runs on a request with that cookie
CallServerUser(cookie, resp) ==
    /\ call' = [NoCall EXCEPT !.op = "get_server_user", !.cookie = cookie,
                              !.uresp = IF get_server_user(cookie, resp).calls = 1
                                        THEN resp ELSE NoUserInfo,
                              !.calls = get_server_user(cookie, resp).calls,
                              !.exc = get_server_user(cookie, resp).exc,
                              !.user = get_server_user(cookie, resp).user]
    /\ UNCHANGED <<cb, store, now, prot, roles, gate, browser>>

\* keycloak.check_user_admin_role(token, user_id) is called and the
\* role-mappings endpoint answers resp
CallCheckAdmin(cookie, resp) ==
    /\ call' = [NoCall EXCEPT !.op = "check_user_admin_role", !.cookie = cookie,
                              !.rresp = resp, !.calls = 1,
                              !.exc = check_user_admin_role(resp).exc,
                              !.is_admin = check_user_admin_role(resp).is_admin]
    /\ UNCHANGED <<cb, store, now, prot, roles, gate, browser>>

(* ---------------------------- specification --------------------------- *)

Init ==
    /\ cb = [r \in Reqs |-> IdleReq]
    /\ store = {}
    /\ now = 0
    /\ prot = NoProt
    /\ roles = [s \in Subjects |-> NoDoc]
    /\ gate = NoGate
    /\ call = NoCall
    /\ browser = NoBrowser

Next ==
    \/ \E r \in Reqs, code \in {NoParam, "c"}, error \in {NoParam, "access_denied"} :
          Start(r, code, error)
    \/ \E r \in Reqs, resp \in CallbackResponses : Exchange(r, resp)
    \/ \E r \in Reqs : Find(r)
    \/ \E r \in Reqs : Add(r)
    \/ \E r \in Reqs : Commit(r)
    \/ Tick

Spec == Init /\ [][Next]_vars

\* tables the callbacks can have filled: no two rows with one id or one email
Rows == [id : Subjects, email : Emails]
ConsistentStores ==
    {S \in SUBSET Rows :
        \A x, y \in S : (x.id = y.id \/ x.email = y.email) => x = y}

\* one callback with every input, on any consistent table
InitOne ==
    /\ cb = [r \in Reqs |-> IdleReq]
    /\ store \in ConsistentStores
    /\ now = 0
    /\ prot = NoProt
    /\ roles = [s \in Subjects |-> NoDoc]
    /\ gate = NoGate
    /\ call = NoCall
    /\ browser = NoBrowser

NextOne ==
    \/ \E code \in CodeValues, error \in ErrorValues : Start(1, code, error)
    \/ \E resp \in TokenResponses : Exchange(1, resp)
    \/ Find(1)
    \/ Add(1)
    \/ Commit(1)
    \/ Tick

SpecOne == InitOne /\ [][NextOne]_vars

\* one callback and GET /protected with any cookie
NextAuth ==
    \/ \E code \in {NoParam, "c"}, error \in {NoParam, "access_denied"} :
          Start(1, code, error)
    \/ \E resp \in CallbackResponses : Exchange(1, resp)
    \/ Find(1)
    \/ Add(1)
    \/ Commit(1)
    \/ \E cookie \in SessionTokens \cup {NoToken} : ProtectedRequest(cookie)
    \/ Tick

SpecAuth == Init /\ [][NextAuth]_vars

\* the cookies presented to the gate
GateTokens == {t \in Tokens : t.aud = "account" /\ t.email = "e1" /\ t.sub /= NoSub}

NextGate ==
    \/ \E path \in Paths, cookie \in GateTokens \cup {NoToken} :
          \E resp \in RoleResponses(cookie.sub) : GateRequest(path, cookie, resp)
    \/ \E s \in Subjects, doc \in RoleDocs : RoleChange(s, doc)
    \/ Tick

SpecGate == Init /\ [][NextGate]_vars

\* the answers of the token endpoint to the one login of the browser
BrowserResponses ==
    {[kind |-> "neterr", status |-> 0, access_token |-> NoToken]}
    \cup [kind : {"http"}, status : {200},
          access_token : {t \in CallbackTokens :
                             t.signer = PUBLIC_KEY /\ t.sub = "u1" /\ t.email = "e1"}]

\* one browser: it logs in through the callback, keeps the cookie, asks
\* /protected and / and logs out, while time passes
NextLogout ==
    \/ \E code \in {NoParam, "c"} : Start(1, code, NoParam)
    \/ \E resp \in BrowserResponses : Exchange(1, resp)
    \/ Find(1)
    \/ Add(1)
    \/ Commit(1)
    \/ StoreCookie(1)
    \/ \E id_token \in IdTokenValues : Logout(id_token)
    \/ BrowserProtected
    \/ Index
    \/ Tick

SpecLogout == Init /\ [][NextLogout]_vars

\* the cookies presented by clients whatever happened before
HistoryTokens ==
    {t \in SessionTokens : t.aud = "account" /\ t.email /= "e2" /\ t.sub /= "u2"}

\* one browser that logs in and out on any consistent table, and clients
\* that ask /protected with any cookie, the one kept from before the logout
\* included, while time passes
NextHistory ==
    \/ \E code \in {NoParam, "c"} : Start(1, code, NoParam)
    \/ \E resp \in BrowserResponses : Exchange(1, resp)
    \/ Find(1)
    \/ Add(1)
    \/ Commit(1)
    \/ StoreCookie(1)
    \/ Logout(NoParam)
    \/ KeptTokenProtected
    \/ \E cookie \in HistoryTokens \cup {NoToken} : ProtectedRequest(cookie)
    \/ Tick

SpecHistory == InitOne /\ [][NextHistory]_vars

\* a token of the provider for u1 that lasts
GoodToken ==
    [sub |-> "u1", email |-> "e1", signer |-> PUBLIC_KEY, exp |-> MaxTime,
     aud |-> "account"]

\* role documents that make their subject an administrator
AdminDocs == {doc \in RoleDocs : "realm-admin" \in client_roles(doc)}

\* every operation of the application, on any consistent table
NextAll ==
    \/ \E code \in {NoParam, "c"} : Start(1, code, NoParam)
    \/ \E resp \in BrowserResponses : Exchange(1, resp)
    \/ Find(1)
    \/ Add(1)
    \/ Commit(1)
    \/ \E cookie \in {NoToken, GoodToken} : ProtectedRequest(cookie)
    \/ \E resp \in {r \in UserInfoResponses : r.body \in {NoRow, AddUser(GoodToken)}} :
          CallServerUser(GoodToken, resp)
    \/ Logout("idt")
    \/ Index
    \/ \E resp \in RoleResponses("u1") : GateRequest(<<"/", "p">>, GoodToken, resp)
    \/ \E op \in AdminOps, resp \in RoleResponses("u1") :
          AdminRequest(op, [id |-> "u1", email |-> "e2"], GoodToken, resp)
    \/ \E doc \in AdminDocs : RoleChange("u1", doc)

SpecAll == InitOne /\ [][NextAll]_vars

\* the answers of the token endpoint to concurrent logins: a network error,
\* 200 without a token, with a forged token, and with a lasting token of the
\* provider for every subject and email
ManyResponses ==
    {resp \in CallbackResponses :
        \/ resp.kind = "neterr"
        \/ resp.status = 200 /\ resp.access_token = NoToken
        \/ resp.status = 200 /\ resp.access_token.exp = MaxTime
           /\ resp.access_token.sub /= NoSub}

\* callbacks that interleave, on any consistent table
NextMany ==
    \/ \E r \in Reqs, code \in {NoParam, "c"} : Start(r, code, NoParam)
    \/ \E r \in Reqs, resp \in ManyResponses : Exchange(r, resp)
    \/ \E r \in Reqs : Find(r)
    \/ \E r \in Reqs : Add(r)
    \/ \E r \in Reqs : Commit(r)

SpecMany == InitOne /\ [][NextMany]_vars

\* every call of a request that has arrived returns or raises in the end:
\* the exchange with the provider, the SELECT, the INSERT and the COMMIT
Returns ==
    \A r \in Reqs :
        /\ WF_vars(\E resp \in ManyResponses : Exchange(r, resp))
        /\ WF_vars(Find(r))
        /\ WF_vars(Add(r))
        /\ WF_vars(Commit(r))

SpecLive == SpecMany /\ Returns

\* the cookies of the direct calls
ClientTokens == {t \in GateTokens : t.sub = "u1"}

\* the methods of KeycloakClient and get_server_user on every answer
NextClient ==
    \/ \E resp \in ClientTokenResponses : CallGetTokens(resp)
    \/ \E cookie \in ClientTokens, resp \in UserInfoResponses :
          CallGetUserInfo(cookie, resp)
    \/ \E cookie \in ClientTokens \cup {NoToken}, resp \in UserInfoResponses :
          CallServerUser(cookie, resp)
    \/ \E cookie \in ClientTokens, resp \in ClientRoleResponses :
          CallCheckAdmin(cookie, resp)

SpecClient == Init /\ [][NextClient]_vars

TypeOK ==
    /\ now \in Times
    /\ call.op \in {"", "get_tokens", "get_user_info", "get_server_user",
                    "check_user_admin_role"}
    /\ \A r \in Reqs : cb[r].pc \in {"idle", "exchange", "find", "add", "commit", "done"}

(* ================================ claims ============================== *)

Failed(r) == Done(r) /\ cb[r].out /= "redirect"
UnderAdmin(path) == StartsWith(path, ADMIN_PREFIX)

\* C1: a request under /admin reaches its route only if the role-mappings
\* lookup was made in that very request, answered 200 and gave realm-admin,
\* and the provider holds realm-admin for the subject at that moment; an
\* earlier admission of the same subject counts for nothing.
C1_AdminRouteOnlyForAdmins ==
    [][(gate' /= gate /\ UnderAdmin(gate'.path) /\ gate'.reached)
          => /\ gate'.lookups = 1
             /\ gate'.resp.kind = "http" /\ gate'.resp.status = 200
             /\ gate'.is_admin
             /\ "realm-admin" \in client_roles(roles[gate'.cookie.sub])]_vars

\* a subject admitted to the panel earlier is refused with 403 on a lookup
\* that answered 200
C1_Witness ==
    /\ UnderAdmin(gate.path) /\ gate.status = 403 /\ ~gate.reached
    /\ gate.lookups = 1 /\ gate.resp.status = 200
    /\ gate.cookie.sub \in gate.was

\* C2: the table changes only in the commit that ends a callback whose
\* handler raised nothing; the step that ends a callback in an error,
\* also after its INSERT was issued, leaves the table as it was.
C2_FailedCallbackLeavesTable ==
    [][/\ \A r \in Reqs :
            (cb[r].pc /= "done" /\ cb'[r].pc = "done" /\ cb'[r].out /= "redirect")
                => store' = store
       /\ store' /= store
            => \E r \in Reqs : /\ cb[r].pc = "commit" /\ cb'[r].pc = "done"
                               /\ cb'[r].out = "redirect" /\ cb'[r].raised = ""]_vars

\* a callback that issued its INSERT and ended in an error, rolled back
C2_Witness ==
    \E r \in Reqs : /\ Failed(r) /\ cb[r].writes = 1
                    /\ cb[r].raised = "IntegrityError" /\ cb[r].tx = "rolledback"

\* C3: once a callback for a subject has succeeded the table holds exactly
\* one row for that subject, and the second and later successful callbacks
\* for it issued no INSERT.
C3_CallbackIdempotent ==
    \A r \in Reqs :
        (Done(r) /\ cb[r].out = "redirect")
            => /\ Cardinality({x \in store : x.id = cb[r].user_info.sub}) = 1
               /\ cb[r].nth >= 2 => cb[r].writes = 0

\* two successful callbacks for one subject
C3_Witness ==
    \E r \in Reqs : Done(r) /\ cb[r].out = "redirect" /\ cb[r].nth = 2 /\ cb[r].reads = 1

\* C4: a callback response carries the access_token cookie only when the
\* exchange answered 200 with an access token, the token decoded with a
\* subject, a row for the subject was in the session, the cookie is that
\* token and the response redirects to /protected; an error response
\* carries no cookie.
C4_CookieOnlyOnSuccess ==
    \A r \in Reqs :
        Done(r) =>
            /\ cb[r].cookie /= NoToken
                => /\ cb[r].resp.kind = "http" /\ cb[r].resp.status = 200
                   /\ cb[r].resp.access_token \in Tokens
                   /\ cb[r].resp.access_token.signer = PUBLIC_KEY
                   /\ cb[r].resp.access_token.exp >= cb[r].at
                   /\ cb[r].resp.access_token.sub \in Subjects
                   /\ cb[r].userInTx
                   /\ \E x \in store : x.id = cb[r].resp.access_token.sub
                   /\ cb[r].cookie = cb[r].resp.access_token
                   /\ cb[r].out = "redirect" /\ cb[r].location = "/protected"
            /\ cb[r].out /= "redirect" => cb[r].cookie = NoToken

\* a callback that set the cookie
C4_Witness ==
    \E r \in Reqs : Done(r) /\ cb[r].cookie /= NoToken /\ cb[r].out = "redirect"

C6_FailuresSurfaceAsAuthError ==
    \A r \in Reqs :
        Failed(r) =>
            /\ cb[r].out \in {"NotCodeError", "NotAccessToken",
                              "NotFoundUserIdError", "AuthError"}
            /\ (cb[r].resp.kind = "neterr"
                \/ (cb[r].resp.kind = "http" /\ cb[r].resp.status /= 200))
                  => cb[r].out = "AuthError"
            /\ (cb[r].resp.access_token /= NoToken
                /\ (cb[r].resp.access_token.signer /= PUBLIC_KEY
                    \/ cb[r].resp.access_token.exp < cb[r].at))
                  => cb[r].out = "AuthError"
            /\ cb[r].writes = 1 => cb[r].out = "AuthError"

\* a callback whose code exchange raised TokenRequestError
C6_Witness ==
    \E r \in Reqs : /\ Failed(r) /\ cb[r].raised = "TokenRequestError"
                    /\ cb[r].resp.kind = "neterr" /\ cb[r].out = "AuthError"

\* C7: a callback whose exchange answered 200 without an access token ends
\* in NotAccessToken.
C7_NoAccessTokenSurfaces ==
    \A r \in Reqs :
        (Done(r) /\ cb[r].resp.kind = "http" /\ cb[r].resp.status = 200
         /\ cb[r].resp.access_token = NoToken)
            => cb[r].out = "NotAccessToken"

\* C8: a callback whose access token decodes to a payload without subject
\* ends in NotFoundUserIdError and has made no lookup and no insert.
C8_UserIdMissingSurfaces ==
    \A r \in Reqs :
        (Done(r) /\ cb[r].resp.access_token /= NoToken
         /\ cb[r].resp.access_token.signer = PUBLIC_KEY
         /\ cb[r].resp.access_token.exp >= cb[r].at
         /\ cb[r].resp.access_token.sub = NoSub)
            => cb[r].out = "NotFoundUserIdError" /\ cb[r].reads = 0 /\ cb[r].writes = 0

\* C9 as stated: a callback that carries an error parameter, empty or not,
\* ends in NotCodeError with no exchange and no storage access.
C9_AnyErrorParameter ==
    \A r \in Reqs :
        (Done(r) /\ cb[r].error /= NoParam)
            => /\ cb[r].out = "NotCodeError"
               /\ cb[r].calls = 0 /\ cb[r].reads = 0 /\ cb[r].writes = 0

\* C9: a callback that carries a non-empty error parameter ends at once in
\* NotCodeError, with or without a code, with no exchange and no storage
\* access.
C9_ErrorParameter ==
    \A r \in Reqs :
        (cb[r].pc /= "idle" /\ cb[r].error \notin {NoParam, ""})
            => /\ Done(r) /\ cb[r].out = "NotCodeError" /\ cb[r].raised = "NotCodeError"
               /\ cb[r].calls = 0 /\ cb[r].reads = 0 /\ cb[r].writes = 0

\* a callback with an error and a code, refused
C9_Witness ==
    \E r \in Reqs : /\ Done(r) /\ cb[r].error = "access_denied" /\ cb[r].code = "c"
                    /\ cb[r].out = "NotCodeError"

\* C10: a callback that carries neither code nor error ends at once in
\* NotCodeError (401), with no call to the provider and no write.
C10_MissingCode ==
    \A r \in Reqs :
        (cb[r].pc /= "idle" /\ cb[r].code = NoParam /\ cb[r].error = NoParam)
            => /\ Done(r) /\ cb[r].out = "NotCodeError" /\ status_code(cb[r].out) = 401
               /\ cb[r].calls = 0 /\ cb[r].writes = 0 /\ cb[r].tx /= "committed"

\* a callback without parameters, refused
C10_Witness ==
    \E r \in Reqs : /\ Done(r) /\ cb[r].code = NoParam /\ cb[r].error = NoParam
                    /\ cb[r].out = "NotCodeError"

C12_GateFailLoud ==
    /\ gate.exc /= ""
          => /\ gate.status = 401 /\ gate.detail = gate.exc /\ ~gate.reached
    /\ (gate.lookups = 1 /\ gate.resp.kind = "neterr")
          => gate.exc = "KeycloakRequestError" /\ gate.status = 401
    /\ (gate.reads = 1 /\ gate.cookie /= NoToken
        /\ (gate.cookie.signer /= PUBLIC_KEY \/ gate.cookie.exp < gate.at))
          => gate.exc /= "" /\ gate.status = 401 /\ gate.lookups = 0

\* an /admin request with a good token whose lookup failed on the network
C12_Witness ==
    /\ UnderAdmin(gate.path) /\ gate.lookups = 1 /\ gate.resp.kind = "neterr"
    /\ gate.status = 401 /\ gate.detail = "KeycloakRequestError"

\* C16 as stated: logout always deletes the access_token cookie and redirects
\* to the logout URL with client_id and post_logout_redirect_uri, and with
\* id_token_hint exactly when the request has an id_token cookie, whether or
\* not it has an access_token cookie; /protected asked by the browser right
\* after logout ends in the redirect to login.
C16_LogoutHintIffCookie ==
    /\ browser.last \in {"logout", "protected after logout"}
          => /\ "access_token" \in browser.response.deleted
             /\ browser.access_token = NoToken
             /\ browser.response.status = 307
             /\ browser.response.location = LOGOUT_URL
             /\ {"client_id", "post_logout_redirect_uri"} \subseteq DOMAIN browser.response.params
             /\ browser.response.params["client_id"] = CLIENT_ID
             /\ browser.response.params["post_logout_redirect_uri"] = BASE_URL
             /\ "id_token_hint" \in DOMAIN browser.response.params
                   <=> browser.id_token /= NoParam
    /\ browser.last = "protected after logout"
          => prot.answer = [status |-> 307, location |-> LOGIN_URL]

\* C16: logout always deletes the access_token cookie and redirects to the
\* logout URL with client_id and post_logout_redirect_uri, and with
\* id_token_hint, equal to the cookie, exactly when the request has a
\* non-empty id_token cookie, whether or not it has an access_token cookie;
\* /protected asked by the browser right after logout finds no cookie and
\* ends in the redirect to login.
C16_LogoutClearsSession ==
    /\ browser.last \in {"logout", "protected after logout"}
          => /\ "access_token" \in browser.response.deleted
             /\ browser.access_token = NoToken
             /\ browser.response.status = 307
             /\ browser.response.location = LOGOUT_URL
             /\ {"client_id", "post_logout_redirect_uri"} \subseteq DOMAIN browser.response.params
             /\ browser.response.params["client_id"] = CLIENT_ID
             /\ browser.response.params["post_logout_redirect_uri"] = BASE_URL
             /\ "id_token_hint" \in DOMAIN browser.response.params
                   <=> Truthy(browser.id_token)
             /\ Truthy(browser.id_token)
                   => browser.response.params["id_token_hint"] = browser.id_token
    /\ browser.last = "protected after logout"
          => /\ prot.cookie = NoToken /\ prot.exc = "NotAccessToken"
             /\ prot.answer = [status |-> 307, location |-> LOGIN_URL]

\* the browser logged in, logged out while its token was still good, with
\* an empty id_token cookie, and then asked /protected
C16_Witness ==
    /\ browser.last = "protected after logout"
    /\ browser.sent /= NoToken /\ ~Expired(browser.sent, now)
    /\ browser.sent = cb[1].cookie
    /\ browser.id_token = ""
    /\ prot.answer.location = LOGIN_URL

\* C17: the user table changes only in the commit of a successful callback,
\* and only by the insertion of a row whose subject the table did not hold:
\* no row is ever updated or deleted, and session extraction (both variants),
\* logout, the admin gate and its views, and the index route leave the table
\* as it was.
C17_TableOnlyGrowsByCallback ==
    [][/\ store \subseteq store'
       /\ store' /= store
            => /\ \E r \in Reqs :
                     /\ cb[r].pc = "commit" /\ cb'[r].pc = "done"
                     /\ cb'[r].out = "redirect"
                     /\ store' \ store = {AddUser(cb[r].user_info)}
                     /\ ~\E x \in store : x.id = cb[r].user_info.sub
               /\ prot' = prot /\ call' = call /\ gate' = gate /\ browser' = browser
       /\ (prot' /= prot \/ call' /= call \/ gate' /= gate \/ browser' /= browser)
            => store' = store]_vars

\* a successful callback for a subject the table knows under another email
\* issued no INSERT and left the row as it was, and an administrator has
\* reached the panel
C17_Witness ==
    /\ Done(1) /\ cb[1].out = "redirect" /\ cb[1].writes = 0
    /\ \E x \in store : x.id = cb[1].user_info.sub /\ x.email /= cb[1].user_info.email
    /\ gate.reached /\ UnderAdmin(gate.path)
    /\ browser.last = "logout" /\ prot.served /\ call.op = "get_server_user"

\* C18: a request for a path that does not start with /admin reaches its
\* route with the route's response; the middleware reads no cookie, decodes
\* nothing and asks the provider nothing, whoever the caller is.
C18_OtherPathsBypassGate ==
    gate.path = <<"/", "p">>
        => /\ gate.reached /\ gate.status = 200
           /\ gate.reads = 0 /\ gate.lookups = 0 /\ gate.exc = ""
           /\ gate.resp = NoLookup

\* a request outside /admin by a caller who would be refused under /admin
C18_Witness ==
    /\ gate.path = <<"/", "p">> /\ gate.reached
    /\ gate.cookie /= NoToken /\ gate.cookie.signer /= PUBLIC_KEY

\* C13: every failure with status 401 that a route raises is answered with a
\* redirect to the login URL of the provider and never with status 401; a
\* request to /protected without the cookie always ends in that redirect.
C13_Route401RedirectsToLogin ==
    /\ (prot.served /\ prot.exc /= "" /\ status_code(prot.exc) = 401)
          => prot.answer = [status |-> 307, location |-> LOGIN_URL]
    /\ (prot.served /\ prot.cookie = NoToken)
          => prot.answer = [status |-> 307, location |-> LOGIN_URL]
    /\ \A r \in Reqs :
          (Failed(r) /\ status_code(cb[r].out) = 401)
              => cb[r].answer = [status |-> 307, location |-> LOGIN_URL]
    /\ prot.answer.status /= 401
    /\ \A r \in Reqs : cb[r].answer.status /= 401

\* /protected was asked without a cookie after a callback had failed
C13_Witness ==
    /\ prot.served /\ prot.cookie = NoToken /\ prot.exc = "NotAccessToken"
    /\ prot.answer.location = LOGIN_URL
    /\ Failed(1) /\ cb[1].out = "AuthError" /\ cb[1].answer.location = LOGIN_URL

\* C14 as stated: get_cookie_user fails with NotAccessToken without a cookie,
\* with InvalidToken when the token does not decode, and returns a record
\* whose id is the subject claim whenever the token decodes.
C14_DecodedTokenGivesRecord ==
    prot.served
        => /\ prot.cookie = NoToken => prot.exc = "NotAccessToken"
           /\ (prot.cookie /= NoToken
               /\ (prot.cookie.signer /= PUBLIC_KEY \/ prot.cookie.exp < prot.at))
                 => prot.exc = "InvalidToken"
           /\ (prot.cookie /= NoToken /\ prot.cookie.signer = PUBLIC_KEY
               /\ ~(prot.cookie.exp < prot.at))
                 => prot.exc = "" /\ prot.user.id = prot.cookie.sub

\* C14: get_cookie_user fails with NotAccessToken without a cookie and with
\* InvalidToken when the token does not decode; a token that decodes gives a
\* record whose id is the subject claim when its payload carries the subject
\* and the fields AddUser requires, and InvalidToken when it lacks one of
\* them; there is no other outcome.
C14_CookieUserOutcomes ==
    prot.served
        => /\ prot.cookie = NoToken => prot.exc = "NotAccessToken"
           /\ (prot.cookie /= NoToken
               /\ (prot.cookie.signer /= PUBLIC_KEY \/ prot.cookie.exp < prot.at))
                 => prot.exc = "InvalidToken"
           /\ (prot.cookie /= NoToken /\ prot.cookie.signer = PUBLIC_KEY
               /\ ~(prot.cookie.exp < prot.at)
               /\ prot.cookie.sub /= NoSub /\ prot.cookie.email /= NoEmail)
                 => /\ prot.exc = "" /\ prot.user.id = prot.cookie.sub
                    /\ prot.user.email = prot.cookie.email
           /\ (prot.cookie /= NoToken /\ prot.cookie.signer = PUBLIC_KEY
               /\ ~(prot.cookie.exp < prot.at)
               /\ (prot.cookie.sub = NoSub \/ prot.cookie.email = NoEmail))
                 => prot.exc = "InvalidToken"
           /\ prot.exc \in {"", "NotAccessToken", "InvalidToken"}
           /\ prot.exc /= "" => prot.user = NoRow

\* /protected was asked with a token of the provider, not expired, whose
\* payload has no subject claim
C14_Witness ==
    /\ prot.served /\ prot.cookie /= NoToken
    /\ prot.cookie.signer = PUBLIC_KEY /\ ~(prot.cookie.exp < prot.at)
    /\ prot.cookie.sub = NoSub /\ prot.exc = "InvalidToken"

\* C15: get_server_user fails with NotAccessToken without a cookie and asks
\* the provider nothing; with a cookie every failure of the userinfo call, a
\* non-200 status as well as a network failure, surfaces as InvalidToken
\* (status 401, never the 500 of KeycloakRequestError), and a 200 answer
\* gives the body.
C15_ServerUserFailures ==
    call.op = "get_server_user"
        => /\ call.cookie = NoToken
                 => call.exc = "NotAccessToken" /\ call.calls = 0 /\ call.user = NoRow
           /\ (call.cookie /= NoToken
               /\ (call.uresp.kind = "neterr" \/ call.uresp.status /= 200))
                 => /\ call.exc = "InvalidToken" /\ call.user = NoRow
                    /\ status_code(call.exc) = 401
           /\ (call.cookie /= NoToken /\ call.uresp.kind = "http"
               /\ call.uresp.status = 200)
                 => call.exc = "" /\ call.user = call.uresp.body
           /\ call.exc \in {"", "NotAccessToken", "InvalidToken"}

\* get_server_user ran with a cookie while the provider was unreachable
C15_Witness ==
    /\ call.op = "get_server_user" /\ call.cookie /= NoToken
    /\ call.uresp.kind = "neterr" /\ call.exc = "InvalidToken"

\* C19: on a 200 role-mappings answer check_user_admin_role is true exactly
\* when realm-admin is among the role names of at least one client; no client
\* mappings, or only other role names, give false.
C19_RealmAdminIffPresent ==
    (call.op = "check_user_admin_role" /\ call.rresp.kind = "http"
     /\ call.rresp.status = 200)
        => /\ call.exc = ""
           /\ call.is_admin
                 <=> \E c \in DOMAIN call.rresp.body :
                        "realm-admin" \in call.rresp.body[c]
           /\ DOMAIN call.rresp.body = {} => ~call.is_admin
           /\ (\A c \in DOMAIN call.rresp.body :
                   call.rresp.body[c] \subseteq RoleNames \ {"realm-admin"})
                 => ~call.is_admin

\* a 200 answer with two clients, realm-admin held at one of them only and
\* next to another role name
C19_Witness ==
    /\ call.op = "check_user_admin_role" /\ call.rresp.status = 200
    /\ call.is_admin
    /\ \E c, d \in DOMAIN call.rresp.body :
          /\ "realm-admin" \notin call.rresp.body[c]
          /\ call.rresp.body[c] /= {}
          /\ "realm-admin" \in call.rresp.body[d]
          /\ call.rresp.body[d] /= {"realm-admin"}

\* C20: get_tokens fails with TokenRequestError on a non-200 status and on a
\* network error and returns the parsed body otherwise; get_user_info fails
\* with InvalidToken on a non-200 status and with KeycloakRequestError on a
\* network error; neither returns a body for a non-200 answer.
C20_ClientErrorMapping ==
    /\ call.op = "get_tokens"
          => /\ (call.tresp.kind = "neterr" \/ call.tresp.status /= 200)
                   => call.exc = "TokenRequestError" /\ call.access_token = NoToken
             /\ (call.tresp.kind = "http" /\ call.tresp.status = 200)
                   => call.exc = "" /\ call.access_token = call.tresp.access_token
    /\ call.op = "get_user_info"
          => /\ call.uresp.kind = "neterr"
                   => call.exc = "KeycloakRequestError" /\ call.user = NoRow
             /\ (call.uresp.kind = "http" /\ call.uresp.status /= 200)
                   => call.exc = "InvalidToken" /\ call.user = NoRow
             /\ (call.uresp.kind = "http" /\ call.uresp.status = 200)
                   => call.exc = "" /\ call.user = call.uresp.body

\* get_user_info got a non-200 answer that carries a body
C20_Witness ==
    /\ call.op = "get_user_info" /\ call.uresp.kind = "http"
    /\ call.uresp.status = 401 /\ call.uresp.body /= NoRow
    /\ call.exc = "InvalidToken"

\* C21: under every interleaving of concurrent callbacks, those for the same
\* unknown subject that both passed the existence check included, the table
\* never holds more than one row for a subject, and a callback whose INSERT
\* conflicted ended in AuthError, rolled back and closed, with no cookie and
\* without a row of its own in the table.
C21_RaceKeepsOneRow ==
    /\ \A s \in Subjects : Cardinality({x \in store : x.id = s}) <= 1
    /\ \A r \in Reqs :
          (Done(r) /\ cb[r].raised = "IntegrityError")
              => /\ cb[r].out = "AuthError" /\ cb[r].cookie = NoToken
                 /\ cb[r].tx = "rolledback" /\ cb[r].closed /\ cb[r].pending = {}
                 /\ cb[r].writes = 1
                 /\ \E x \in store :
                       \/ x.id = cb[r].user_info.sub
                       \/ x.email = cb[r].user_info.email

\* two callbacks for one subject both found no row and both issued their
\* INSERT; one was committed, the other conflicted
C21_Witness ==
    \E r, q \in Reqs :
        /\ r /= q /\ Done(r) /\ Done(q)
        /\ cb[r].user_info.sub = cb[q].user_info.sub
        /\ cb[r].reads = 1 /\ cb[q].reads = 1
        /\ cb[r].writes = 1 /\ cb[q].writes = 1
        /\ cb[r].out = "redirect" /\ cb[q].raised = "IntegrityError"
        /\ Cardinality({x \in store : x.id = cb[r].user_info.sub}) = 1

\* C22: where every call returns or raises in the end, every callback that
\* has arrived ends; it ends either in the redirect to /protected with the
\* cookie, its session committed and closed, or in an auth error without a
\* cookie, its session rolled back and closed; once over it stays as it is,
\* and no request makes any of its calls twice.
C22_CallbackTerminates ==
    /\ \A r \in Reqs : (cb[r].pc /= "idle") ~> Done(r)
    /\ [](\A r \in Reqs :
            /\ cb[r].calls <= 1 /\ cb[r].reads <= 1 /\ cb[r].writes <= 1
            /\ Done(r)
                  => \/ /\ cb[r].out = "redirect" /\ cb[r].location = "/protected"
                        /\ cb[r].cookie /= NoToken /\ cb[r].raised = ""
                        /\ cb[r].tx = "committed" /\ cb[r].closed
                     \/ /\ cb[r].out \in {"AuthError", "NotCodeError"}
                        /\ cb[r].cookie = NoToken /\ cb[r].raised /= ""
                        /\ cb[r].tx = "rolledback" /\ cb[r].closed)
    /\ [][\A r \in Reqs : Done(r) => cb'[r] = cb[r]]_vars

\* two callbacks are over, one in the redirect after its INSERT was
\* committed and one in AuthError after its INSERT conflicted
C22_Witness ==
    \E r, q \in Reqs :
        /\ Done(r) /\ cb[r].out = "redirect" /\ cb[r].writes = 1
        /\ cb[r].tx = "committed"
        /\ Done(q) /\ cb[q].out = "AuthError" /\ cb[q].writes = 1
        /\ cb[q].tx = "rolledback"

\* C23: no two rows ever share an email; a callback for a subject without a
\* row whose INSERT is answered while another subject's row holds the
\* token's email leaves the table as it was and ends in AuthError, rolled
\* back and without a cookie, at every attempt.
C23_EmailStaysUnique ==
    [][/\ \A x, y \in store : x.email = y.email => x = y
       /\ \A x, y \in store' : x.email = y.email => x = y
       /\ \A r \in Reqs :
            (/\ cb[r].pc = "add" /\ cb'[r].pc /= "add"
             /\ \E x \in store : /\ x.email = cb[r].user_info.email
                                 /\ x.id /= cb[r].user_info.sub)
                => /\ store' = store
                   /\ cb'[r].pc = "done" /\ cb'[r].out = "AuthError"
                   /\ cb'[r].cookie = NoToken /\ cb'[r].tx = "rolledback"
                   /\ cb'[r].raised = "IntegrityError"]_vars

\* two attempts for a subject without a row both failed on the email that
\* the row of another subject holds
C23_Witness ==
    \E r, q \in Reqs :
        /\ r /= q /\ Done(r) /\ Done(q)
        /\ cb[r].user_info = cb[q].user_info
        /\ cb[r].raised = "IntegrityError" /\ cb[q].raised = "IntegrityError"
        /\ ~\E x \in store : x.id = cb[r].user_info.sub
        /\ \E x \in store : x.email = cb[r].user_info.email

\* C24: what /protected answers is a function of the cookie presented, the
\* public key and the time of the request alone, whatever was done before
\* and whatever the user table holds: the same token at the same time gives
\* the same result in every run; in particular the token a browser held
\* when it logged out is accepted afterwards until it expires.
C24_SessionIgnoresHistory ==
    /\ [](prot.served
            => LET c == prot.cookie
                   decodes == c /= NoToken /\ c.signer = PUBLIC_KEY /\ ~(c.exp < prot.at)
                   complete == c.sub /= NoSub /\ c.email /= NoEmail
               IN /\ c = NoToken => prot.exc = "NotAccessToken" /\ prot.user = NoRow
                  /\ (c /= NoToken /\ ~(decodes /\ complete))
                        => prot.exc = "InvalidToken" /\ prot.user = NoRow
                  /\ (decodes /\ complete)
                        => /\ prot.exc = ""
                           /\ prot.user = [id |-> c.sub, email |-> c.email])
    /\ [][(browser.last = "logout" /\ browser'.last = "kept token after logout")
            => /\ prot'.cookie = browser.sent /\ prot'.at = now
               /\ browser'.access_token = NoToken
               /\ ~(browser.sent.exp < now)
                     => prot'.exc = "" /\ prot'.user.id = browser.sent.sub
               /\ browser.sent.exp < now => prot'.exc = "InvalidToken"]_vars

\* after a login at time 0 and a logout that emptied the jar, time has
\* passed and the token kept from before the logout was accepted
C24_Witness ==
    /\ browser.last = "kept token after logout"
    /\ browser.access_token = NoToken /\ browser.sent = prot.cookie
    /\ prot.cookie = cb[1].cookie /\ cb[1].at = 0 /\ prot.at > 0
    /\ prot.exc = "" /\ prot.user.id = prot.cookie.sub
    /\ prot.answer.status = 200

====
